---- MODULE Spec2Model ----
(***************************************************************************)
(* The RTA trends dashboard (app.py, one Streamlit script that is run      *)
(* again from the top after every widget change) and the historian merge   *)
(* script (merge_factorytalk_clean.py) that writes the CSV the dashboard   *)
(* reads as its local file.                                                *)
(*                                                                         *)
(* Strings that the code matches by substring (tag names, the URL that is  *)
(* stripped, raw CSV cells that are parsed) are sequences of characters.   *)
(* A timestamp is <<day, second of the day, microsecond>>; a date is the   *)
(* day number.  A Value is a fraction <<numerator, denominator>>.          *)
(***************************************************************************)
EXTENDS Integers, Sequences, FiniteSets, TLC

VARIABLES
    envRawCsvUrl,   \* os.environ["RAW_CSV_URL"] (characters; <<>> when unset)
    localCsv,       \* the file Last_30_Day_Data_Group_45.csv
    remoteCsv,      \* what the remote URL serves
    cache,          \* st.cache_data entry of load_data
    pc,             \* "init", or how the last script run ended
    exc,            \* the exception that ended the last run ("" when none)
    reads,          \* the places the last execution of load_data read from
    df,             \* module-level df of the last run
    data_source,    \* module-level data_source of the last run
    session,        \* the sidebar widgets' values (Streamlit session state)
    f,              \* the filtered, scaled frame of the last run
    traces,         \* fig's traces of the last run
    log,            \* the steps and elements of the last run, in order
    table,          \* the rows handed to st.dataframe
    uploaded,       \* merge script: the uploaded historian files
    combined,       \* merge script: the combined frame
    mergePc         \* merge script: "init", "done" or "exception"

vars == <<envRawCsvUrl, localCsv, remoteCsv, cache, pc, exc, reads, df,
          data_source, session, f, traces, log, table, uploaded, combined,
          mergePc>>

dashVars == <<cache, pc, exc, reads, df, data_source, session, f, traces,
              log, table>>

mergeVars == <<uploaded, combined, mergePc>>

(***************************************************************************)
(* Bounds of the model.                                                    *)
(***************************************************************************)
MaxRows == 2        \* rows of a sampled dashboard CSV
MaxDay == 2         \* days the date picker offers: 1..MaxDay
MaxFiles == 2       \* uploaded historian files

(***************************************************************************)
(* Program constants.                                                      *)
(***************************************************************************)
HeadLimit == 500        \* f.head(500)
DefaultLimit == 6       \* equipments[:6], tags[:6]

Range(s) == {s[i] : i \in 1..Len(s)}

Min(a, b) == IF a <= b THEN a ELSE b

SeqsUpTo(S, n) == UNION {[1..k -> S] : k \in 0..n}

(***************************************************************************)
(* Tag names.                                                              *)
(***************************************************************************)
T_Feedrate == <<"F", "e", "e", "d", "r", "a", "t", "e">>
T_Setpoint == <<"S", "e", "t", "p", "o", "i", "n", "t">>
T_Rolling_Avg == <<"R", "o", "l", "l", "i", "n", "g", "_", "A", "v", "g">>
T_Load == <<"L", "o", "a", "d">>
T_Gate_Pos_CMD == <<"G", "a", "t", "e", "_", "P", "o", "s", "_", "C", "M", "D">>
T_Belt_Speed == <<"B", "e", "l", "t", "_", "S", "p", "e", "e", "d">>
T_Motor_Current == <<"M", "o", "t", "o", "r", "_", "C", "u", "r", "r", "e", "n", "t">>
T_Avg_Current == <<"A", "v", "g", "_", "C", "u", "r", "r", "e", "n", "t">>
T_FIC_PV == <<"F", "I", "C", "_", "P", "V">>
T_PV_Current == <<"P", "V", "_", "C", "u", "r", "r", "e", "n", "t">>
T_Level_Speed == <<"L", "e", "v", "e", "l", "_", "S", "p", "e", "e", "d">>
T_Speed_Current == <<"S", "p", "e", "e", "d", "_", "C", "u", "r", "r", "e", "n", "t">>
T_Temp == <<"T", "e", "m", "p">>
T_feedrate == <<"f", "e", "e", "d", "r", "a", "t", "e">>

\* Every tag name of the model, in the order Python's sorted() gives.
TagOrder ==
    << T_Avg_Current, T_Belt_Speed, T_FIC_PV, T_Feedrate, T_Gate_Pos_CMD,
       T_Level_Speed, T_Load, T_Motor_Current, T_PV_Current, T_Rolling_Avg,
       T_Setpoint, T_Speed_Current, T_Temp, T_feedrate >>

AllTags == Range(TagOrder)

EquipOrder == <<"E1", "E2">>

GroupOrder == <<"G1", "G2">>

\* sorted(set of values), for a column whose values are listed in `order`.
Sorted(S, order) == SelectSeq(order, LAMBDA x : x \in S)

\* k in s, for Python strings.
Contains(k, s) ==
    \E i \in 1..(Len(s) - Len(k) + 1) : SubSeq(s, i, i + Len(k) - 1) = k

(***************************************************************************)
(* Timestamps.                                                             *)
(***************************************************************************)
TimeLeq(a, b) ==
    \/ a[1] < b[1]
    \/ a[1] = b[1] /\ a[2] < b[2]
    \/ a[1] = b[1] /\ a[2] = b[2] /\ a[3] <= b[3]

\* pd.Timestamp.min is 1677-09-21 00:12:43.145224193 and pd.Timestamp.max is
\* 2262-04-11 23:47:16.854775807; .time() keeps the time of day to the
\* microsecond.
TimestampMinTime == <<763, 145224>>

TimestampMaxTime == <<85636, 854775>>

\* pd.Timestamp.combine(date, time)
Combine(date, tod) == <<date, tod[1], tod[2]>>

DateOf(t) == t[1]

Days == 1..MaxDay

(***************************************************************************)
(* CSV contents.  A CSV is its header (cols) and its rows; a row is a      *)
(* record with one field per column.                                       *)
(***************************************************************************)
DashCols == {"Time", "Equipment", "Tag_Name", "Value", "Tag_Group", "Quality"}

Row(t, e, tag, v, g, q) ==
    [Time |-> t, Equipment |-> e, Tag_Name |-> tag, Value |-> <<v, 1>>,
     Tag_Group |-> g, Quality |-> q]

\* Sample rows; their times are pairwise different, so that sorting by Time
\* has one result whatever the sorting algorithm does with ties.
PoolRows ==
    { Row(<<1, 0, 0>>,          "E1", T_Feedrate,   2500, "G1", "Good"),
      Row(<<1, 43200, 0>>,      "E2", T_PV_Current, 7,    "G2", "Good"),
      Row(<<1, 85636, 854775>>, "E2", T_Setpoint,   3000, "G1", "Good"),
      Row(<<2, 763, 145224>>,   "E1", T_Load,       40,   "G1", "Bad") }

Csv(cols, rows) == [exists |-> TRUE, cols |-> cols, rows |-> rows]

NoFile == [exists |-> FALSE, cols |-> {}, rows |-> <<>>]

\* A CSV of the dashboard's layout with every sequence of sample rows.
SampleCsvs == {Csv(DashCols, rows) : rows \in SeqsUpTo(PoolRows, MaxRows)}

\* One tag on both pieces of equipment, for every tag name of the model.
TagCsvs ==
    { Csv(DashCols,
          << Row(<<1, 3600, 0>>, "E1", t, 1500, "G1", "Good"),
             Row(<<1, 7200, 0>>, "E2", t, 500, "G1", "Good") >>) : t \in AllTags }

\* More rows than the data preview shows: one sample logged again and again.
BigCsv ==
    Csv(DashCols,
        [i \in 1..(HeadLimit + 1) |->
            Row(<<1, 43200, 0>>, "E1", T_Feedrate, 2500, "G1", "Good")])

\* A CSV without a Time column, and one without a Quality column.
NoTimeCsv ==
    Csv(DashCols \ {"Time"},
        << [Equipment |-> "E1", Tag_Name |-> T_Load, Value |-> <<40, 1>>,
            Tag_Group |-> "G1", Quality |-> "Good"] >>)

NoQualityCsv ==
    Csv(DashCols \ {"Quality"},
        << [Time |-> <<1, 43200, 0>>, Equipment |-> "E1", Tag_Name |-> T_Load,
            Value |-> <<40, 1>>, Tag_Group |-> "G1"] >>)

LocalContents ==
    SampleCsvs \cup TagCsvs \cup {BigCsv, NoTimeCsv, NoQualityCsv, NoFile}

RemoteFrame ==
    Csv(DashCols,
        << Row(<<2, 43200, 0>>, "E1", T_Rolling_Avg, 1200, "G1", "Good"),
           Row(<<1, 43200, 0>>, "E1", T_Motor_Current, 12, "G1", "Bad") >>)

\* exists = FALSE for the URL: the request fails or returns an HTTP error.
RemoteContents == {RemoteFrame, NoFile}

Whitespace == {" ", "\t", "\n"}

RawUrlValues == {<<>>, <<" ">>, <<"u">>, <<" ", "u", " ">>}

(***************************************************************************)
(* load_data                                                               *)
(***************************************************************************)
RECURSIVE LStrip(_)
LStrip(s) ==
    IF s # <<>> /\ Head(s) \in Whitespace THEN LStrip(Tail(s)) ELSE s

RECURSIVE RStrip(_)
RStrip(s) ==
    IF s # <<>> /\ s[Len(s)] \in Whitespace
    THEN RStrip(SubSeq(s, 1, Len(s) - 1))
    ELSE s

\* str.strip()
Strip(s) == RStrip(LStrip(s))

\* A faulty variant: the variable is used as it is, without .strip().
RawCsvUrlUnstripped == envRawCsvUrl

\* RAW_CSV_URL = os.environ.get("RAW_CSV_URL", "").strip()
RAW_CSV_URL == Strip(envRawCsvUrl)

\* df.sort_values("Time").reset_index(drop=True): the earliest rows first,
\* rows of one Time in their order of arrival.
RECURSIVE SortValues(_)
SortValues(rows) ==
    IF rows = <<>> THEN <<>>
    ELSE LET times == {rows[i].Time : i \in 1..Len(rows)}
             t == CHOOSE x \in times : \A y \in times : TimeLeq(x, y)
         IN  SelectSeq(rows, LAMBDA r : r.Time = t)
             \o SortValues(SelectSeq(rows, LAMBDA r : r.Time # t))

Raised(e, where) ==
    [exc |-> e, cols |-> {}, rows |-> <<>>, source |-> "", reads |-> where]

\* pd.read_csv(..., parse_dates=["Time"]) followed by the sort.
ReadAndSort(csv, source, where) ==
    IF "Time" \notin csv.cols
    THEN Raised("ValueError", where)
    ELSE [exc |-> "", cols |-> csv.cols, rows |-> SortValues(csv.rows),
          source |-> source, reads |-> where]

load_data(raw_url, local_file) ==
    IF raw_url # <<>>
    THEN IF ~remoteCsv.exists
         THEN Raised("HTTPError", <<"remote">>)
         ELSE ReadAndSort(remoteCsv, "remote (GitHub raw)", <<"remote">>)
    ELSE IF ~local_file.exists
         THEN Raised("FileNotFoundError", <<"local">>)
         ELSE ReadAndSort(local_file, "local (repo file)", <<"local">>)

NoEntry == [valid |-> FALSE, value |-> Raised("", <<>>)]

\* @st.cache_data: a hit returns the stored value without running load_data.
CachedLoad(c) ==
    IF c.valid THEN c.value ELSE load_data(RAW_CSV_URL, localCsv)

(***************************************************************************)
(* The sidebar.                                                            *)
(***************************************************************************)
NoSession ==
    [shown |-> FALSE, date_range |-> <<>>, sel_group |-> {}, sel_equip |-> {},
     sel_tags |-> {}, quality_ok_only |-> FALSE, overlay_mode |-> "Percent+MTPH"]

ColumnValues(d, col) == {d.rows[i][col] : i \in 1..Len(d.rows)}

\* sorted(df[col].dropna().unique()) if col in df.columns else []
Options(d, col, order) ==
    IF col \in d.cols THEN Sorted(ColumnValues(d, col), order) ELSE <<>>

\* df["Time"].min().date(), df["Time"].max().date()
MinDate(d) ==
    LET times == ColumnValues(d, "Time")
    IN  DateOf(CHOOSE x \in times : \A y \in times : TimeLeq(x, y))

MaxDateOf(d) ==
    LET times == ColumnValues(d, "Time")
    IN  DateOf(CHOOSE x \in times : \A y \in times : TimeLeq(y, x))

\* xs[:6]
FirstSix(xs) == SubSeq(xs, 1, Min(DefaultLimit, Len(xs)))

\* The value every widget has when it is first drawn.
Defaults(d) ==
    [shown |-> TRUE,
     date_range |-> <<MinDate(d), MaxDateOf(d)>>,
     sel_group |-> Range(Options(d, "Tag_Group", GroupOrder)),
     sel_equip |-> Range(FirstSix(Options(d, "Equipment", EquipOrder))),
     sel_tags |-> Range(FirstSix(Options(d, "Tag_Name", TagOrder))),
     quality_ok_only |-> FALSE,
     overlay_mode |-> "Percent+MTPH"]

\* start_dt and end_dt from the date picker's value: a pair of dates, or one
\* date while the second is not yet picked.
StartDt(date_range) ==
    IF Len(date_range) = 2
    THEN Combine(date_range[1], TimestampMinTime)
    ELSE Combine(date_range[1], TimestampMinTime)

EndDt(date_range) ==
    IF Len(date_range) = 2
    THEN Combine(date_range[2], TimestampMaxTime)
    ELSE Combine(date_range[1], TimestampMaxTime)

(***************************************************************************)
(* Filter and scale.                                                       *)
(***************************************************************************)
InMask(d, w, r) ==
    /\ r.Tag_Group \in w.sel_group
    /\ r.Equipment \in w.sel_equip
    /\ r.Tag_Name \in w.sel_tags
    /\ TimeLeq(StartDt(w.date_range), r.Time)
    /\ TimeLeq(r.Time, EndDt(w.date_range))
    /\ (w.quality_ok_only /\ "Quality" \in d.cols => r.Quality = "Good")

\* df.loc[mask, [...]].copy(): the rows keep their index in df.
FilterFrame(d, w) ==
    LET n == Len(d.rows)
        keep == SelectSeq([i \in 1..n |-> i], LAMBDA i : InMask(d, w, d.rows[i]))
    IN  [k \in 1..Len(keep) |->
            [idx |-> keep[k],
             Time |-> d.rows[keep[k]].Time,
             Equipment |-> d.rows[keep[k]].Equipment,
             Tag_Name |-> d.rows[keep[k]].Tag_Name,
             Value |-> d.rows[keep[k]].Value,
             Tag_Group |-> d.rows[keep[k]].Tag_Group,
             Quality |-> d.rows[keep[k]].Quality]]

ScaleTags == <<T_Feedrate, T_Setpoint, T_Rolling_Avg>>

\* v / 1000.0
Div1000(v) == <<v[1], v[2] * 1000>>

RECURSIVE ScaleEach(_, _)
ScaleEach(fr, tags) ==
    IF tags = <<>> THEN fr
    ELSE ScaleEach([i \in 1..Len(fr) |->
                       IF fr[i].Tag_Name = Head(tags)
                       THEN [fr[i] EXCEPT !.Value = Div1000(@)]
                       ELSE fr[i]],
                   Tail(tags))

\* if not f.empty: for tag in [...]: f.loc[f.Tag_Name == tag, "Value"] /= 1000
ScaleFrame(fr) == IF fr # <<>> THEN ScaleEach(fr, ScaleTags) ELSE fr

\* A faulty variant: f is a view of the loaded frame, and the division by
\* 1000 is written through to the rows it was taken from.
LoadedScaledInPlace(loaded, fr) ==
    [loaded EXCEPT !.rows =
        [i \in 1..Len(loaded.rows) |->
            IF \E k \in 1..Len(fr) : fr[k].idx = i
            THEN [loaded.rows[i] EXCEPT
                     !.Value = fr[CHOOSE k \in 1..Len(fr) : fr[k].idx = i].Value]
            ELSE loaded.rows[i]]]

\* f is a copy: what load_data returned (and the cache holds) is not touched
\* by the scaling of f.
LoadedAfterScaling(loaded, fr) == loaded

(***************************************************************************)
(* Routing of tags to axes.                                                *)
(***************************************************************************)
PercentKeys ==
    << <<"P", "V">>, <<"C", "V">>, <<"O", "P">>, <<"L", "o", "a", "d">>,
       <<"G", "a", "t", "e", "_", "P", "o", "s">>, <<"L", "e", "v", "e", "l">>,
       <<"P", "e", "r", "c", "e", "n", "t">>, <<"L", "S", "H">>,
       <<"L", "S", "L">> >>

is_percent_tag(tag) == \E i \in 1..Len(PercentKeys) : Contains(PercentKeys[i], tag)

is_current(tag) == Contains(<<"C", "u", "r", "r", "e", "n", "t">>, tag)

is_speed(tag) == Contains(<<"S", "p", "e", "e", "d">>, tag)

\* A faulty variant: Rolling_Avg is missing from the list.
is_mtph_without_rolling_avg(tag) == tag \in {T_Feedrate, T_Setpoint}

is_mtph(tag) == tag \in {T_Feedrate, T_Setpoint, T_Rolling_Avg}

\* A faulty variant: the Current test comes before the percent test.
CurrentFirstRoute(tag) ==
    IF is_current(tag) THEN <<"y4", "A">>
    ELSE IF is_percent_tag(tag) THEN <<"y", "%">>
    ELSE IF is_mtph(tag) THEN <<"y2", "MTPH">>
    ELSE IF is_speed(tag) THEN <<"y3", "m/s">>
    ELSE <<"y2", "">>

\* The if/elif chain of the Percent+MTPH mode: <<yaxis, unit>>.
PercentRoute(tag) ==
    IF is_percent_tag(tag) THEN <<"y", "%">>
    ELSE IF is_mtph(tag) THEN <<"y2", "MTPH">>
    ELSE IF is_speed(tag) THEN <<"y3", "m/s">>
    ELSE IF is_current(tag) THEN <<"y4", "A">>
    ELSE <<"y2", "">>

AXIS_MAP ==
    (T_Feedrate :> <<"y2", "MTPH">>) @@ (T_Setpoint :> <<"y2", "MTPH">>) @@
    (T_Rolling_Avg :> <<"y2", "MTPH">>) @@
    (T_Load :> <<"y", "%">>) @@ (T_Gate_Pos_CMD :> <<"y", "%">>) @@
    (T_Belt_Speed :> <<"y3", "m/s">>) @@ (T_Motor_Current :> <<"y4", "A">>) @@
    (T_Avg_Current :> <<"y4", "A">>)

\* AXIS_MAP.get(tag, ("y2", ""))
ClassicRoute(tag) ==
    IF tag \in DOMAIN AXIS_MAP THEN AXIS_MAP[tag] ELSE <<"y2", "">>

RouteFor(mode, tag) ==
    IF mode = "Percent+MTPH" THEN PercentRoute(tag) ELSE ClassicRoute(tag)

\* The keys of f.groupby(["Tag_Name","Equipment"]), in sorted order.
GroupKeys(fr) ==
    LET nt == Len(TagOrder)
        ne == Len(EquipOrder)
        all == [k \in 1..(nt * ne) |->
                   <<TagOrder[((k - 1) \div ne) + 1], EquipOrder[((k - 1) % ne) + 1]>>]
        present == {<<fr[i].Tag_Name, fr[i].Equipment>> : i \in 1..Len(fr)}
    IN  SelectSeq(all, LAMBDA k : k \in present)

\* One fig.add_trace per group.
Traces(fr, mode) ==
    LET keys == GroupKeys(fr)
    IN  [k \in 1..Len(keys) |->
            LET seg == SelectSeq(fr, LAMBDA r : r.Tag_Name = keys[k][1]
                                              /\ r.Equipment = keys[k][2])
            IN  [tag |-> keys[k][1], equip |-> keys[k][2],
                 yaxis |-> RouteFor(mode, keys[k][1])[1],
                 unit |-> RouteFor(mode, keys[k][1])[2],
                 x |-> [i \in 1..Len(seg) |-> seg[i].Time],
                 y |-> [i \in 1..Len(seg) |-> seg[i].Value]]]

\* f.head(500)
HeadRows(fr) == SubSeq(fr, 1, Min(HeadLimit, Len(fr)))

(***************************************************************************)
(* One run of app.py from the top, with the widgets' values s and the      *)
(* cache entry c.                                                          *)
(***************************************************************************)
FilterCols == {"Tag_Group", "Equipment", "Tag_Name"}

Script(s, c) ==
    LET r == CachedLoad(c)
        d == [cols |-> r.cols, rows |-> r.rows]
        w == IF s.shown THEN s ELSE Defaults(d)
        f0 == FilterFrame(d, w)
        f1 == ScaleFrame(f0)
        tr == IF f1 = <<>> THEN <<>> ELSE Traces(f1, w.overlay_mode)
    IN  /\ reads' = r.reads
        /\ IF r.exc # ""
           THEN \* load_data raised: nothing catches it
                /\ pc' = "exception"
                /\ exc' = r.exc
                /\ cache' = NoEntry
                /\ df' = [cols |-> {}, rows |-> <<>>]
                /\ data_source' = ""
                /\ session' = NoSession
                /\ f' = <<>>
                /\ traces' = <<>>
                /\ table' = <<>>
                /\ log' = <<"load">>
           ELSE IF d.rows = <<>> \/ "Time" \notin d.cols
           THEN \* st.sidebar.error(...); st.stop()
                /\ pc' = "stopped"
                /\ exc' = ""
                /\ cache' = [valid |-> TRUE, value |-> r]
                /\ df' = d
                /\ data_source' = r.source
                /\ session' = NoSession
                /\ f' = <<>>
                /\ traces' = <<>>
                /\ table' = <<>>
                /\ log' = <<"load", "sidebar.error">>
           ELSE IF ~(FilterCols \subseteq d.cols) \/ ~(DashCols \subseteq d.cols)
           THEN \* df["Tag_Group"] ... or df.loc[mask, [...]] raises KeyError
                /\ pc' = "exception"
                /\ exc' = "KeyError"
                /\ cache' = [valid |-> TRUE, value |-> r]
                /\ df' = d
                /\ data_source' = r.source
                /\ session' = w
                /\ f' = <<>>
                /\ traces' = <<>>
                /\ table' = <<>>
                /\ log' = <<"load", "widgets">>
           ELSE /\ pc' = "done"
                /\ exc' = ""
                /\ cache' = [valid |-> TRUE, value |-> LoadedAfterScaling(r, f1)]
                /\ df' = d
                /\ data_source' = r.source
                /\ session' = w
                /\ f' = f1
                /\ traces' = tr
                /\ table' = HeadRows(f1)
                /\ log' = <<"load", "widgets", "filter">>
                          \o (IF f0 # <<>> THEN <<"scale">> ELSE <<>>)
                          \o (IF f1 = <<>> THEN <<"warning">>
                              ELSE [k \in 1..Len(tr) |-> "add_trace"])
                          \o <<"plot", "table">>
        /\ UNCHANGED <<envRawCsvUrl, localCsv, remoteCsv>>
        /\ UNCHANGED mergeVars

\* The values st.sidebar.date_input can return: (first, last) or (first,).
DateRanges ==
    {dr \in Days \X Days : dr[1] <= dr[2]} \cup {<<a>> : a \in Days}

Toggle(S, x) == IF x \in S THEN S \ {x} ELSE S \cup {x}

\* The browser opens the page.
Start ==
    /\ pc = "init"
    /\ Script(NoSession, cache)

\* A rerun with nothing changed, within the cache's ttl.
Rerun ==
    /\ pc # "init"
    /\ Script(session, cache)

\* A rerun after the cache entry's ttl of 300 s has passed.
RerunAfterTtl ==
    /\ pc # "init"
    /\ Script(session, NoEntry)

SetDateRange ==
    /\ session.shown
    /\ \E dr \in DateRanges \ {session.date_range} :
          Script([session EXCEPT !.date_range = dr], cache)

ToggleGroup ==
    /\ session.shown
    /\ \E g \in Range(Options(df, "Tag_Group", GroupOrder)) :
          Script([session EXCEPT !.sel_group = Toggle(@, g)], cache)

ToggleEquipment ==
    /\ session.shown
    /\ \E e \in Range(Options(df, "Equipment", EquipOrder)) :
          Script([session EXCEPT !.sel_equip = Toggle(@, e)], cache)

ToggleTag ==
    /\ session.shown
    /\ \E t \in Range(Options(df, "Tag_Name", TagOrder)) :
          Script([session EXCEPT !.sel_tags = Toggle(@, t)], cache)

ToggleQuality ==
    /\ session.shown
    /\ Script([session EXCEPT !.quality_ok_only = ~@], cache)

SetOverlayMode ==
    /\ session.shown
    /\ \E m \in {"Percent+MTPH", "Classic"} \ {session.overlay_mode} :
          Script([session EXCEPT !.overlay_mode = m], cache)

(***************************************************************************)
(* merge_factorytalk_clean.py.  An uploaded file is its header and its     *)
(* rows, each row one cell per header entry; headers and cells are text.   *)
(* A timestamp cell is written "D HH:MM:SS" (D the day number).            *)
(***************************************************************************)
Digits == <<"0", "1", "2", "3", "4", "5", "6", "7", "8", "9">>

LowerCase ==
    <<"a", "b", "c", "d", "e", "f", "g", "h", "i", "j", "k", "l", "m", "n",
      "o", "p", "q", "r", "s", "t", "u", "v", "w", "x", "y", "z">>

UpperCase ==
    <<"A", "B", "C", "D", "E", "F", "G", "H", "I", "J", "K", "L", "M", "N",
      "O", "P", "Q", "R", "S", "T", "U", "V", "W", "X", "Y", "Z">>

IsLetter(c) == c \in Range(LowerCase) \cup Range(UpperCase)

Upper(c) ==
    IF c \in Range(LowerCase)
    THEN UpperCase[CHOOSE k \in 1..Len(LowerCase) : LowerCase[k] = c]
    ELSE c

Lower(c) ==
    IF c \in Range(UpperCase)
    THEN LowerCase[CHOOSE k \in 1..Len(UpperCase) : UpperCase[k] = c]
    ELSE c

\* str.title()
Title(s) ==
    [i \in 1..Len(s) |->
        IF i = 1 \/ ~IsLetter(s[i - 1]) THEN Upper(s[i]) ELSE Lower(s[i])]

\* The text of the column names the script names.
Chars ==
    ("Time" :> <<"T", "i", "m", "e">>) @@ ("Name" :> <<"N", "a", "m", "e">>) @@
    ("Value" :> <<"V", "a", "l", "u", "e">>) @@
    ("Quality" :> <<"Q", "u", "a", "l", "i", "t", "y">>)

NaT == <<-1, 0, 0>>

NaN == <<0, 0>>

IsDigits(s) == s # <<>> /\ \A i \in 1..Len(s) : s[i] \in Range(Digits)

DigitValue(c) == (CHOOSE k \in 1..Len(Digits) : Digits[k] = c) - 1

RECURSIVE ToNat(_)
ToNat(s) ==
    IF s = <<>> THEN 0
    ELSE ToNat(SubSeq(s, 1, Len(s) - 1)) * 10 + DigitValue(s[Len(s)])

RECURSIVE Pow10(_)
Pow10(n) == IF n = 0 THEN 1 ELSE 10 * Pow10(n - 1)

\* pd.to_datetime(cell, errors='coerce')
to_datetime(cell) ==
    IF /\ Len(cell) = 10
       /\ cell[2] = " " /\ cell[5] = ":" /\ cell[8] = ":"
       /\ IsDigits(<<cell[1], cell[3], cell[4], cell[6], cell[7], cell[9], cell[10]>>)
       /\ ToNat(<<cell[3], cell[4]>>) < 24
       /\ ToNat(<<cell[6], cell[7]>>) < 60
       /\ ToNat(<<cell[9], cell[10]>>) < 60
       /\ ToNat(<<cell[1]>>) >= 1
    THEN <<ToNat(<<cell[1]>>),
           ToNat(<<cell[3], cell[4]>>) * 3600 + ToNat(<<cell[6], cell[7]>>) * 60
               + ToNat(<<cell[9], cell[10]>>),
           0>>
    ELSE NaT

\* pd.to_numeric(cell, errors='coerce')
to_numeric(cell) ==
    LET neg == cell # <<>> /\ Head(cell) = "-"
        body == IF neg THEN Tail(cell) ELSE cell
        sign == IF neg THEN -1 ELSE 1
        dots == {i \in 1..Len(body) : body[i] = "."}
    IN  IF dots = {}
        THEN IF IsDigits(body) THEN <<sign * ToNat(body), 1>> ELSE NaN
        ELSE IF Cardinality(dots) = 1
        THEN LET p == CHOOSE i \in dots : TRUE
                 ip == SubSeq(body, 1, p - 1)
                 fp == SubSeq(body, p + 1, Len(body))
             IN  IF /\ ip = <<>> \/ IsDigits(ip)
                    /\ fp = <<>> \/ IsDigits(fp)
                    /\ ip # <<>> \/ fp # <<>>
                 THEN <<sign * (ToNat(ip) * Pow10(Len(fp)) + ToNat(fp)),
                        Pow10(Len(fp))>>
                 ELSE NaN
        ELSE NaN

\* A faulty variant: the name is split on '.' only.
clean_name_dot_only(full) ==
    LET seps == {i \in 1..Len(full) : full[i] = "."}
        last == IF seps = {} THEN 0
                ELSE CHOOSE i \in seps : \A j \in seps : j <= i
    IN  Strip(SubSeq(full, last + 1, Len(full)))

\* re.split(r"[./]", full)[-1].strip()
clean_name(full) ==
    LET seps == {i \in 1..Len(full) : full[i] \in {".", "/"}}
        last == IF seps = {} THEN 0
                ELSE CHOOSE i \in seps : \A j \in seps : j <= i
    IN  Strip(SubSeq(full, last + 1, Len(full)))

\* clean_csv up to the dropna: the frame, or the KeyError of a missing
\* Time, Value or Name column.
clean_csv(file) ==
    LET hdr == [i \in 1..Len(file.header) |-> Title(Strip(file.header[i]))]
        keep == SelectSeq(<<"Time", "Name", "Value", "Quality">>,
                          LAMBDA c : Chars[c] \in Range(hdr))
        at(c) == CHOOSE i \in 1..Len(hdr) : hdr[i] = Chars[c]
        cell(row, c) == row[at(c)]
        clean(row) ==
            [c \in Range(keep) \cup {"Tag"} |->
                CASE c = "Time" -> to_datetime(cell(row, "Time"))
                  [] c = "Value" -> to_numeric(cell(row, "Value"))
                  [] c = "Tag" -> clean_name(cell(row, "Name"))
                  [] OTHER -> cell(row, c)]
        rows == [i \in 1..Len(file.rows) |-> clean(file.rows[i])]
    IN  IF {"Time", "Value", "Name"} \subseteq Range(keep)
        THEN [exc |-> "", cols |-> keep \o <<"Tag">>,
              rows |-> SelectSeq(rows, LAMBDA r : r.Time # NaT /\ r.Value # NaN)]
        ELSE [exc |-> "KeyError", cols |-> <<>>, rows |-> <<>>]

\* pd.concat(frames, ignore_index=True): the columns in order of first
\* appearance, a missing cell is NaN.
RECURSIVE ConcatCols(_)
ConcatCols(frames) ==
    IF frames = <<>> THEN <<>>
    ELSE LET before == ConcatCols(SubSeq(frames, 1, Len(frames) - 1))
         IN  before \o SelectSeq(frames[Len(frames)].cols,
                                 LAMBDA c : c \notin Range(before))

RECURSIVE ConcatRows(_, _)
ConcatRows(frames, cols) ==
    IF frames = <<>> THEN <<>>
    ELSE LET fr == Head(frames)
         IN  [i \in 1..Len(fr.rows) |->
                 [c \in cols |->
                     IF c \in Range(fr.cols) THEN fr.rows[i][c]
                     ELSE <<"N", "a", "N">>]]
             \o ConcatRows(Tail(frames), cols)

\* The whole script for the uploaded files: the combined frame and how the
\* script ended.
MergeResult(files) ==
    LET frames == [i \in 1..Len(files) |-> clean_csv(files[i])]
        cols == ConcatCols(frames)
    IN  IF \E i \in 1..Len(frames) : frames[i].exc # ""
        THEN [exc |-> "KeyError", cols |-> <<>>, rows |-> <<>>]
        ELSE IF frames = <<>>
        THEN [exc |-> "ValueError", cols |-> <<>>, rows |-> <<>>]
        ELSE [exc |-> "", cols |-> cols,
              rows |-> SortValues(ConcatRows(frames, Range(cols)))]

\* Sample rows of a historian export: Time, Name, Value, Quality cells.
\* RawA and RawB are good, RawC has no timestamp, RawD has no number.
RawA ==
    << <<"1", " ", "1", "2", ":", "0", "0", ":", "0", "0">>,
       <<"P", "l", "a", "n", "t", ".", "L", "i", "n", "e", "/",
         "F", "e", "e", "d", "r", "a", "t", "e", " ">>,
       <<"2", "5", "0", "0">>, <<"G", "o", "o", "d">> >>

RawB ==
    << <<"1", " ", "0", "6", ":", "3", "0", ":", "0", "0">>,
       <<"L", "o", "a", "d">>,
       <<"-", "4", ".", "5">>, <<"B", "a", "d">> >>

RawC ==
    << <<"n", "/", "a">>,
       <<"T", "T", "-", "0", "1", ".", " ", "P", "V">>,
       <<"1", "2">>, <<"G", "o", "o", "d">> >>

RawD ==
    << <<"2", " ", "0", "0", ":", "0", "0", ":", "1", "0">>,
       <<"M", "o", "t", "o", "r", "s", "/">>,
       <<"1", ",", "5">>, <<"G", "o", "o", "d">> >>

\* The layouts of an export: the plain one, one with other spelling, order
\* and a further column, one without Quality, one without Name.
PlainFile(rows) ==
    [header |-> << <<"T", "i", "m", "e">>, <<"N", "a", "m", "e">>,
                   <<"V", "a", "l", "u", "e">>,
                   <<"Q", "u", "a", "l", "i", "t", "y">> >>,
     rows |-> rows]

RespeltFile(rows) ==
    [header |-> << <<"N", "A", "M", "E">>, <<" ", "t", "i", "m", "e">>,
                   <<"U", "n", "i", "t", "s">>, <<"v", "a", "l", "u", "e", " ">>,
                   <<"Q", "U", "A", "L", "I", "T", "Y">> >>,
     rows |-> [i \in 1..Len(rows) |->
                  <<rows[i][2], rows[i][1], <<"k", "g">>, rows[i][3], rows[i][4]>>]]

NoQualityFile(rows) ==
    [header |-> << <<"T", "i", "m", "e">>, <<"N", "a", "m", "e">>,
                   <<"V", "a", "l", "u", "e">> >>,
     rows |-> [i \in 1..Len(rows) |-> <<rows[i][1], rows[i][2], rows[i][3]>>]]

NoNameFile(rows) ==
    [header |-> << <<"T", "i", "m", "e">>, <<"V", "a", "l", "u", "e">> >>,
     rows |-> [i \in 1..Len(rows) |-> <<rows[i][1], rows[i][3]>>]]

\* The sample files a user uploads.
Files ==
    {PlainFile(r) : r \in {<<>>, <<RawB>>, <<RawC>>, <<RawA, RawB>>,
                           <<RawA, RawC>>, <<RawD, RawB>>}}
    \cup {RespeltFile(r) : r \in {<<RawA>>, <<RawD, RawB>>}}
    \cup {NoQualityFile(r) : r \in {<<RawA>>, <<RawB, RawC>>}}
    \cup {NoNameFile(r) : r \in {<<RawA>>}}

\* combined.to_csv(out_name, index=False): the file the dashboard reads.
to_csv(frame) == Csv(Range(frame.cols), frame.rows)

\* One run of the merge script on the files the user uploads.
Merge ==
    /\ mergePc = "init"
    /\ \E files \in SeqsUpTo(Files, MaxFiles) :
          LET m == MergeResult(files)
          IN  /\ uploaded' = files
              /\ combined' = [cols |-> m.cols, rows |-> m.rows]
              /\ mergePc' = IF m.exc = "" THEN "done" ELSE "exception"
              /\ localCsv' = IF m.exc = "" THEN to_csv(m) ELSE localCsv
    /\ UNCHANGED <<envRawCsvUrl, remoteCsv>>
    /\ UNCHANGED dashVars

DashInit ==
    /\ cache = NoEntry
    /\ pc = "init"
    /\ exc = ""
    /\ reads = <<>>
    /\ df = [cols |-> {}, rows |-> <<>>]
    /\ data_source = ""
    /\ session = NoSession
    /\ f = <<>>
    /\ traces = <<>>
    /\ log = <<>>
    /\ table = <<>>

\* The dashboard on its own: RAW_CSV_URL is unset and the repository's CSV is
\* any of the sample contents, or RAW_CSV_URL is set.
Init ==
    /\ envRawCsvUrl \in RawUrlValues
    /\ localCsv \in (IF envRawCsvUrl = <<>> THEN LocalContents
                     ELSE {NoFile, Csv(DashCols, <<>>)})
    /\ remoteCsv \in (IF Strip(envRawCsvUrl) = <<>> THEN {RemoteFrame}
                      ELSE RemoteContents)
    /\ DashInit
    /\ uploaded = <<>>
    /\ combined = [cols |-> <<>>, rows |-> <<>>]
    /\ mergePc = "init"

Next ==
    \/ Start
    \/ Rerun
    \/ RerunAfterTtl
    \/ SetDateRange
    \/ ToggleGroup
    \/ ToggleEquipment
    \/ ToggleTag
    \/ ToggleQuality
    \/ SetOverlayMode

Spec == Init /\ [][Next]_vars

\* The merge script and then the dashboard on the file it wrote: no CSV is
\* in place before the merge and RAW_CSV_URL names no URL.
InitMerge ==
    /\ envRawCsvUrl = <<>>
    /\ localCsv = NoFile
    /\ remoteCsv = NoFile
    /\ DashInit
    /\ uploaded = <<>>
    /\ combined = [cols |-> <<>>, rows |-> <<>>]
    /\ mergePc = "init"

NextMerge ==
    \/ Merge
    \/ Start
    \/ Rerun
    \/ RerunAfterTtl
    \/ SetDateRange
    \/ ToggleQuality
    \/ SetOverlayMode

SpecMerge == InitMerge /\ [][NextMerge]_vars

(***************************************************************************)
(* What the claims speak of.                                               *)
(***************************************************************************)
\* RAW_CSV_URL names a URL: some character of the variable is not whitespace.
UrlGiven ==
    \E i \in 1..Len(envRawCsvUrl) : envRawCsvUrl[i] \notin {" ", "\t", "\n"}

\* The CSV load_data is to read.
SourceCsv == IF UrlGiven THEN remoteCsv ELSE localCsv

Count(seq, x) == Cardinality({i \in 1..Len(seq) : seq[i] = x})

NonDecreasing(rows) ==
    \A i \in 1..Len(rows) : \A j \in i..Len(rows) :
        TimeLeq(rows[i].Time, rows[j].Time)

Shown(i) == \E k \in 1..Len(f) : f[k].idx = i

FirstDate == session.date_range[1]

LastDate == session.date_range[Len(session.date_range)]

MtphTags ==
    { <<"F", "e", "e", "d", "r", "a", "t", "e">>,
      <<"S", "e", "t", "p", "o", "i", "n", "t">>,
      <<"R", "o", "l", "l", "i", "n", "g", "_", "A", "v", "g">> }

\* C1: a loaded row is in the filtered frame f exactly when its group,
\* equipment and tag are selected, its Time lies between 00:00:00 of the
\* first selected date and the last instant of the last selected date, and,
\* with 'Quality = Good only' ticked, its Quality is "Good".
C1_FilterMembership ==
    pc = "done" =>
        \A i \in 1..Len(df.rows) :
            LET r == df.rows[i]
            IN  Shown(i) <=>
                    /\ r.Tag_Group \in session.sel_group
                    /\ r.Equipment \in session.sel_equip
                    /\ r.Tag_Name \in session.sel_tags
                    /\ TimeLeq(<<FirstDate, 0, 0>>, r.Time)
                    /\ TimeLeq(r.Time, <<LastDate, 86399, 999999>>)
                    /\ (session.quality_ok_only => r.Quality = "Good")

\* What the code does instead: the day starts at 00:12:43.145224 and ends at
\* 23:47:16.854775.
C1_MembershipWithShortenedDays ==
    pc = "done" =>
        \A i \in 1..Len(df.rows) :
            LET r == df.rows[i]
            IN  Shown(i) <=>
                    /\ r.Tag_Group \in session.sel_group
                    /\ r.Equipment \in session.sel_equip
                    /\ r.Tag_Name \in session.sel_tags
                    /\ TimeLeq(<<FirstDate, 763, 145224>>, r.Time)
                    /\ TimeLeq(r.Time, <<LastDate, 85636, 854775>>)
                    /\ (session.quality_ok_only => r.Quality = "Good")

\* C2: every displayed row of tag Feedrate, Setpoint or Rolling_Avg has its
\* loaded Value divided by 1000, every other displayed row has its loaded
\* Value; the loaded frame (df, and the cache's copy) holds the source's
\* rows unchanged, whatever reruns went before.
C2_ScalingOnFilteredCopy ==
    pc = "done" =>
        /\ cache.valid
        /\ cache.value.rows = df.rows
        /\ Len(df.rows) = Len(SourceCsv.rows)
        /\ \A r \in Range(SourceCsv.rows) :
              Count(df.rows, r) = Count(SourceCsv.rows, r)
        /\ \A k \in 1..Len(f) :
              LET v == df.rows[f[k].idx].Value
              IN  f[k].Value = IF f[k].Tag_Name \in MtphTags
                               THEN <<v[1], v[2] * 1000>>
                               ELSE v

\* C2's case: after a rerun caused by a widget, a scaled and an unscaled row
\* are displayed.
C2_Witness ==
    /\ pc = "done"
    /\ session.quality_ok_only
    /\ \E k \in 1..Len(f) : f[k].Tag_Name \in MtphTags /\ f[k].Value = <<3000, 1000>>
    /\ \E k \in 1..Len(f) : f[k].Tag_Name \notin MtphTags /\ f[k].Value[2] = 1

\* C3: load_data reads the URL when RAW_CSV_URL is not blank and the local
\* file otherwise, never both; the source label names the branch taken and
\* the returned rows are the source's, in non-decreasing Time order.
C3_LoadBranchAndOrder ==
    pc # "init" =>
        /\ reads = IF UrlGiven THEN <<"remote">> ELSE <<"local">>
        /\ cache.valid =>
              /\ data_source = IF UrlGiven THEN "remote (GitHub raw)"
                               ELSE "local (repo file)"
              /\ NonDecreasing(df.rows)
              /\ \A r \in Range(SourceCsv.rows) :
                    Count(df.rows, r) = Count(SourceCsv.rows, r)

\* C3's case: a URL padded with whitespace, the URL's rows out of order.
C3_Witness ==
    /\ envRawCsvUrl = <<" ", "u", " ">>
    /\ pc = "done"
    /\ data_source = "remote (GitHub raw)"
    /\ Len(df.rows) = 2
    /\ df.rows # remoteCsv.rows

\* C4: a failure to read the CSV is caught, and the run ends in a handled
\* error state instead of an exception leaving load_data.
C4_ReadFailureHandled ==
    (pc # "init" /\ ~SourceCsv.exists) => (pc = "stopped" /\ exc = "")

\* The run has passed the load check: the sidebar widgets were drawn.
PassedLoadCheck == \E i \in 1..Len(log) : log[i] = "widgets"

Places(x) == {i \in 1..Len(log) : log[i] = x}

Once(x) == Cardinality(Places(x)) = 1

Before(x, y) == \A i \in Places(x) : \A j \in Places(y) : i < j

C5_Statement ==
    /\ Once("load") /\ Once("filter") /\ Once("plot") /\ Once("table")
    /\ Before("load", "filter") /\ Before("filter", "scale")
    /\ Before("scale", "plot") /\ Before("filter", "plot")
    /\ Before("plot", "table")
    /\ Cardinality(Places("scale")) = IF f = <<>> THEN 0 ELSE 1
    /\ f = <<>> => /\ Once("warning")
                   /\ traces = <<>>
                   /\ Places("add_trace") = {}
    /\ Len(table) <= 500
    /\ Len(table) = IF Len(f) <= 500 THEN Len(f) ELSE 500
    /\ \A i \in 1..Len(table) : table[i] = f[i]

\* C5: in every rerun that passes the load check the steps come in the order
\* load, filter, scale, plot, table, the chart and the data preview are each
\* rendered once, an empty filtered frame gives a warning and no trace, and
\* the table shows at most the first 500 filtered rows.
C5_OrderAndRendering == PassedLoadCheck => C5_Statement

\* The same for the runs that reach the end of the script.
C5_CompletedRuns == pc = "done" => PassedLoadCheck /\ C5_Statement

\* More than 500 rows pass the filter and 500 are shown.
C5_TableCut == pc = "done" /\ Len(f) = 501 /\ Len(table) = 500

\* The filter leaves nothing and the chart and table are still rendered.
C5_EmptyFrame == pc = "done" /\ f = <<>> /\ Len(df.rows) = 2

Pairs(fr) == {<<fr[i].Tag_Name, fr[i].Equipment>> : i \in 1..Len(fr)}

HasAny(keys, tag) == \E k \in keys : Contains(k, tag)

\* C6: in Percent+MTPH mode there is exactly one trace per (Tag_Name,
\* Equipment) pair of the filtered frame, and its axis is the first match of:
\* a percent key in the tag -> y (%); tag Feedrate, Setpoint or Rolling_Avg
\* -> y2 (MTPH); Speed in the tag -> y3 (m/s); Current in the tag -> y4 (A);
\* otherwise y2 with no unit.
C6_OneTracePerPairFirstMatch ==
    (pc = "done" /\ session.overlay_mode = "Percent+MTPH") =>
        /\ \A p \in Pairs(f) :
              Cardinality({k \in 1..Len(traces) :
                              <<traces[k].tag, traces[k].equip>> = p}) = 1
        /\ \A k \in 1..Len(traces) : <<traces[k].tag, traces[k].equip>> \in Pairs(f)
        /\ \A k \in 1..Len(traces) :
              LET tag == traces[k].tag
                  got == <<traces[k].yaxis, traces[k].unit>>
              IN  /\ traces[k].yaxis \in {"y", "y2", "y3", "y4"}
                  /\ IF HasAny({<<"P", "V">>, <<"C", "V">>, <<"O", "P">>,
                                <<"L", "o", "a", "d">>,
                                <<"G", "a", "t", "e", "_", "P", "o", "s">>,
                                <<"L", "e", "v", "e", "l">>,
                                <<"P", "e", "r", "c", "e", "n", "t">>,
                                <<"L", "S", "H">>, <<"L", "S", "L">>}, tag)
                     THEN got = <<"y", "%">>
                     ELSE IF tag \in MtphTags THEN got = <<"y2", "MTPH">>
                     ELSE IF HasAny({<<"S", "p", "e", "e", "d">>}, tag)
                     THEN got = <<"y3", "m/s">>
                     ELSE IF HasAny({<<"C", "u", "r", "r", "e", "n", "t">>}, tag)
                     THEN got = <<"y4", "A">>
                     ELSE got = <<"y2", "">>

\* C6's case: two pairs are plotted and the tag with both PV and Current in
\* its name is on the percent axis.
C6_Witness ==
    /\ pc = "done"
    /\ session.overlay_mode = "Percent+MTPH"
    /\ Len(traces) = 2
    /\ \E k \in 1..Len(traces) :
          /\ traces[k].tag = <<"P", "V", "_", "C", "u", "r", "r", "e", "n", "t">>
          /\ traces[k].yaxis = "y"

\* C7: a CSV without rows or without a Time column gives the sidebar error
\* and stops the run: no widget, no filtering or scaling, no chart, no table.
C7_EmptyOrNoTimeStops ==
    (/\ pc # "init"
     /\ SourceCsv.exists
     /\ SourceCsv.rows = <<>> \/ "Time" \notin SourceCsv.cols)
    => /\ pc = "stopped"
       /\ log = <<"load", "sidebar.error">>
       /\ ~session.shown
       /\ f = <<>> /\ traces = <<>> /\ table = <<>>

\* The half of it that holds: a CSV with a Time column and no rows.
C7_NoRowsStops ==
    (/\ pc # "init"
     /\ SourceCsv.exists
     /\ SourceCsv.rows = <<>> /\ "Time" \in SourceCsv.cols)
    => /\ pc = "stopped"
       /\ log = <<"load", "sidebar.error">>
       /\ ~session.shown
       /\ f = <<>> /\ traces = <<>> /\ table = <<>>

(***************************************************************************)
(* The merge script's input, read off the cells without the script's own   *)
(* parsing: which cells are timestamps and numbers, and their values.      *)
(***************************************************************************)
TimeOfCell ==
    (<<"1", " ", "1", "2", ":", "0", "0", ":", "0", "0">> :> <<1, 43200, 0>>) @@
    (<<"1", " ", "0", "6", ":", "3", "0", ":", "0", "0">> :> <<1, 23400, 0>>) @@
    (<<"2", " ", "0", "0", ":", "0", "0", ":", "1", "0">> :> <<2, 10, 0>>)

NumberOfCell ==
    (<<"2", "5", "0", "0">> :> <<2500, 1>>) @@
    (<<"-", "4", ".", "5">> :> <<-45, 10>>) @@
    (<<"1", "2">> :> <<12, 1>>)

TagOfName ==
    (<<"P", "l", "a", "n", "t", ".", "L", "i", "n", "e", "/",
       "F", "e", "e", "d", "r", "a", "t", "e", " ">>
        :> <<"F", "e", "e", "d", "r", "a", "t", "e">>) @@
    (<<"L", "o", "a", "d">> :> <<"L", "o", "a", "d">>) @@
    (<<"T", "T", "-", "0", "1", ".", " ", "P", "V">> :> <<"P", "V">>) @@
    (<<"M", "o", "t", "o", "r", "s", "/">> :> <<>>)

\* The cell of a raw row that is its Time, its Name, its Value.
TimeCell(row) ==
    CHOOSE c \in Range(row) : c \in DOMAIN TimeOfCell \/ c = <<"n", "/", "a">>

NameCell(row) == CHOOSE c \in Range(row) : c \in DOMAIN TagOfName

ValueCell(row) ==
    CHOOSE c \in Range(row) : c \in DOMAIN NumberOfCell \/ c = <<"1", ",", "5">>

\* The uploaded rows whose Time is a timestamp and whose Value is a number.
GoodInputs ==
    UNION { { <<i, j>> : j \in {k \in 1..Len(uploaded[i].rows) :
                  /\ TimeCell(uploaded[i].rows[k]) \in DOMAIN TimeOfCell
                  /\ ValueCell(uploaded[i].rows[k]) \in DOMAIN NumberOfCell} }
            : i \in 1..Len(uploaded) }

InputKey(p) ==
    LET row == uploaded[p[1]].rows[p[2]]
    IN  <<TimeOfCell[TimeCell(row)], NameCell(row), NumberOfCell[ValueCell(row)],
          TagOfName[NameCell(row)]>>

OutputKey(r) == <<r.Time, r.Name, r.Value, r.Tag>>

\* Rows, order and Tag of the output: each good input row once, nothing
\* else, by non-decreasing Time.
C8_Rows ==
    /\ Len(combined.rows) = Cardinality(GoodInputs)
    /\ \A p \in GoodInputs :
          Cardinality({q \in GoodInputs : InputKey(q) = InputKey(p)})
          = Cardinality({i \in 1..Len(combined.rows) :
                            OutputKey(combined.rows[i]) = InputKey(p)})
    /\ NonDecreasing(combined.rows)
    /\ \A i \in 1..Len(combined.rows) :
          /\ combined.rows[i].Time \in {TimeOfCell[c] : c \in DOMAIN TimeOfCell}
          /\ combined.rows[i].Value \in {NumberOfCell[c] : c \in DOMAIN NumberOfCell}

FileHasQuality(file) ==
    \E i \in 1..Len(file.header) :
        file.header[i] \in {<<"Q", "u", "a", "l", "i", "t", "y">>,
                            <<"Q", "U", "A", "L", "I", "T", "Y">>}

C9_MergedFileLoads ==
    (mergePc = "done" /\ cache.valid) => (pc \in {"done", "stopped"} /\ exc = "")

\* C10: in both modes a trace has the unit MTPH exactly when its values were
\* divided by 1000, and a tag that is a key of AXIS_MAP gets the same axis
\* and unit in both modes.
C10_MtphAndModesAgree ==
    pc = "done" =>
        \A k \in 1..Len(traces) :
            /\ traces[k].unit = "MTPH"
                  <=> traces[k].tag \in MtphTags
            /\ traces[k].tag \in MtphTags
                  <=> \A i \in 1..Len(traces[k].y) : traces[k].y[i][2] = 1000
            /\ traces[k].tag \in DOMAIN AXIS_MAP
                  => /\ <<traces[k].yaxis, traces[k].unit>> = PercentRoute(traces[k].tag)
                     /\ <<traces[k].yaxis, traces[k].unit>> = ClassicRoute(traces[k].tag)

\* C10's case: the classic mode plots Rolling_Avg, divided by 1000, as MTPH.
C10_Witness ==
    /\ pc = "done"
    /\ session.overlay_mode = "Classic"
    /\ \E k \in 1..Len(traces) :
          /\ traces[k].tag = <<"R", "o", "l", "l", "i", "n", "g", "_", "A", "v", "g">>
          /\ traces[k].unit = "MTPH"
          /\ traces[k].y = << <<1500, 1000>> >>

====
